---- MODULE Spec2Model ----
(***************************************************************************)
(* A model of dll's Deep Belief Network (dbn: pretrain, train_with_labels, *)
(* predict_labels, activation_probabilities, full_activation_probabilities,*)
(* predict_label, predict) and of the RBM layer's activate_hidden /        *)
(* activate_visible.                                                       *)
(*                                                                         *)
(* Numbers are fixed point: the integer k stands for k/10, so One = 1.0.   *)
(* Weights are whole numbers (-1, 0, 1), so b + v*w is computed exactly.    *)
(* Layer indices I, labels and returned indices are 0-based as in the      *)
(* source; vectors are sequences, so slot k of the source is element k+1.  *)
(***************************************************************************)
EXTENDS Integers, Sequences, FiniteSets, TLC

VARIABLES
    stack,      \* dbn::tuples: the layer descriptors, fixed at construction
    W,          \* per layer: the weights w and the biases b (hidden), c (visible)
    pc,         \* the operation in progress
    I,          \* for_each_i's layer index inside the running operation
    data,       \* the operation's local 'data' (the converted samples)
    inputRef,   \* what the reference_wrapper 'input' is bound to
    next_a,     \* pretrain's local next_a
    next_s,     \* pretrain's local next_s
    trace,      \* pretrain: the watcher calls and the train calls, in call order
    trainLog,   \* every rbm.train call of the running operation: layer and batch
    W0,         \* the weights when the running operation began
    fed,        \* the batch each layer's lambda body received, by layer
    labs,       \* train_with_labels: the labels lfirst..llast
    numLabels,  \* train_with_labels: the argument 'labels'
    calls,      \* train_with_labels calls made by this process
    twlNext,    \* train_with_labels: the lambda's 'static training_t next', by layer
    statics,    \* the function-static buffers of the forward-pass functions
    out,        \* what the last forward-pass call wrote and returned
    memo        \* per sample, what the calls under the current weights returned

vars == <<stack, W, pc, I, data, inputRef, next_a, next_s, trace, trainLog, W0, fed,
          labs, numLabels, calls, twlNext, statics, out, memo>>

pretrainVars == <<inputRef, next_a, next_s, trace>>
twlVars == <<labs, numLabels, calls, twlNext>>
fwdVars == <<statics, out, memo>>

(***************************************************************************)
(* Bounds of the model.                                                    *)
(***************************************************************************)
MaxBatch == 2
NumProfiles == 2
MaxCalls == 2
MaxLabels == 2
MaxLen == 3

(***************************************************************************)
(* Program constants, in fixed point.                                      *)
(***************************************************************************)
One == 10
Six == 60
Neutral == 1

\* ------------------------------------------------------------------------
\* Vectors
\* ------------------------------------------------------------------------
Max2(a, b) == IF a >= b THEN a ELSE b
Min2(a, b) == IF a <= b THEN a ELSE b

RECURSIVE SumTo(_, _)
SumTo(f, n) == IF n = 0 THEN 0 ELSE f[n] + SumTo(f, n - 1)

\* all vectors of length n over the values S
Vectors(n, S) == [1..n -> S]

\* ------------------------------------------------------------------------
\* Unit activation rules (etl functions called by dyn_rbm)
\* ------------------------------------------------------------------------
\* sigmoid, rounded to one decimal
sigmoid(z) ==
    IF z <= -30 THEN 0
    ELSE IF z <= -18 THEN 1
    ELSE IF z <= -11 THEN 2
    ELSE IF z <= -7 THEN 3
    ELSE IF z <= -3 THEN 4
    ELSE IF z <= 2 THEN 5
    ELSE IF z <= 6 THEN 6
    ELSE IF z <= 10 THEN 7
    ELSE IF z <= 17 THEN 8
    ELSE IF z <= 29 THEN 9
    ELSE One

\* 100 * exp(-d/10) for d >= 0, in steps
ExpDown(d) ==
    IF d = 0 THEN 100
    ELSE IF d <= 1 THEN 90
    ELSE IF d <= 2 THEN 82
    ELSE IF d <= 3 THEN 74
    ELSE IF d <= 5 THEN 61
    ELSE IF d <= 7 THEN 50
    ELSE IF d <= 10 THEN 37
    ELSE IF d <= 15 THEN 22
    ELSE IF d <= 20 THEN 14
    ELSE IF d <= 30 THEN 5
    ELSE IF d <= 46 THEN 1
    ELSE 0

VecMax(z) == CHOOSE m \in {z[k] : k \in DOMAIN z} : \A k \in DOMAIN z : z[k] <= m

\* softmax(z) = exp(z) / sum(exp(z)), rounded to one decimal
softmax(z) ==
    LET e == [k \in DOMAIN z |-> ExpDown(VecMax(z) - z[k])]
        s == SumTo(e, Len(z))
    IN  [k \in DOMAIN z |-> (2 * One * e[k] + s) \div (2 * s)]

\* one_if_max: 1.0 where the value is the maximum, 0.0 elsewhere
one_if_max(a) == [k \in DOMAIN a |-> IF a[k] = VecMax(a) THEN One ELSE 0]

\* the draws of bernoulli(a): each unit is 1.0 with probability a[k]
bernoulli(a) ==
    {s \in Vectors(Len(a), {0, One}) :
        \A k \in DOMAIN a : (a[k] <= 0 => s[k] = 0) /\ (a[k] >= One => s[k] = One)}

\* the noise a stochastic rule may add to one unit
NoiseVals == {-One, One}

logistic_noise(a) ==
    {s \in Vectors(Len(a), {a[k] + n : k \in DOMAIN a, n \in NoiseVals}) :
        \A k \in DOMAIN a : s[k] - a[k] \in NoiseVals}

ranged_noise(a, range) ==
    {[k \in DOMAIN a |-> Min2(Max2(s[k], 0), range)] : s \in logistic_noise(a)}

normal_noise(a) == logistic_noise(a)

\* ------------------------------------------------------------------------
\* The RBM layer (dyn_rbm)
\* ------------------------------------------------------------------------
\* the unit types activate_hidden and activate_visible implement; unit_type
\* also has EXP, which only pretrain's skip test names
HiddenUnits == {"BINARY", "RELU", "RELU6", "RELU1", "SOFTMAX"}
VisibleUnits == {"BINARY", "GAUSSIAN", "RELU"}

\* a layer type: its dimensions and unit types
Layer(nv, nh, vu, hu) == [nv |-> nv, nh |-> nh, vu |-> vu, hu |-> hu]

input_size(L) == L.nv
output_size(L) == L.nh

\* the freshly constructed layer: w = normal_generator * 0.1, b = 0, c = 0
\* (the draw of w is one of NumProfiles weight matrices)
ProfileW(p, L) == [i \in 1..L.nv |-> [j \in 1..L.nh |-> ((i + 2 * j + p) % 3) - 1]]

dyn_rbm(p, L) ==
    [w |-> ProfileW(p, L), b |-> [j \in 1..L.nh |-> 0], c |-> [i \in 1..L.nv |-> 0]]

\* the weights a train call may leave behind (contrastive divergence is
\* stochastic: one of NumProfiles outcomes, each with non-zero biases)
Trained(p, L) ==
    [w |-> ProfileW(p + 1, L),
     b |-> [j \in 1..L.nh |-> (((j + p) % 3) - 1) * 5],
     c |-> [i \in 1..L.nv |-> (((i + 2 * p) % 3) - 1) * 5]]

train(L) == {Trained(p, L) : p \in 1..NumProfiles}

\* b + auto_vmmul(v_a, w, t)
PreHidden(L, Wt, v) ==
    [j \in 1..L.nh |-> Wt.b[j] + SumTo([i \in 1..L.nv |-> v[i] * Wt.w[i][j]], L.nv)]

\* c + auto_vmmul(w, h_s, t)
PreVisible(L, Wt, h) ==
    [i \in 1..L.nv |-> Wt.c[i] + SumTo([j \in 1..L.nh |-> Wt.w[i][j] * h[j]], L.nh)]

\* the mutant of activate_hidden whose rectified units have no upper clamp
activate_hidden_no_min(L, Wt, v_a) ==
    LET z == PreHidden(L, Wt, v_a)
    IN  CASE L.hu = "BINARY" -> [j \in DOMAIN z |-> sigmoid(z[j])]
          [] L.hu = "RELU" -> [j \in DOMAIN z |-> Max2(z[j], 0)]
          [] L.hu = "RELU6" -> [j \in DOMAIN z |-> Max2(z[j], 0)]
          [] L.hu = "RELU1" -> [j \in DOMAIN z |-> Max2(z[j], 0)]
          [] L.hu = "SOFTMAX" -> softmax(z)

\* activate_hidden: the activation h_a, computed from v_a (v_s is ignored)
activate_hidden(L, Wt, v_a) ==
    LET z == PreHidden(L, Wt, v_a)
    IN  CASE L.hu = "BINARY" -> [j \in DOMAIN z |-> sigmoid(z[j])]
          [] L.hu = "RELU" -> [j \in DOMAIN z |-> Max2(z[j], 0)]
          [] L.hu = "RELU6" -> [j \in DOMAIN z |-> Min2(Max2(z[j], 0), Six)]
          [] L.hu = "RELU1" -> [j \in DOMAIN z |-> Min2(Max2(z[j], 0), One)]
          [] L.hu = "SOFTMAX" -> softmax(z)

\* activate_hidden: the draws of the sample h_s, given the activation h_a
hidden_sample(L, h_a) ==
    CASE L.hu = "BINARY" -> bernoulli(h_a)
      [] L.hu = "RELU" -> logistic_noise(h_a)
      [] L.hu = "RELU6" -> ranged_noise(h_a, Six)
      [] L.hu = "RELU1" -> ranged_noise(h_a, One)
      [] L.hu = "SOFTMAX" -> {one_if_max(h_a)}

\* activate_visible: the activation v_a, computed from h_s (h_a is ignored)
activate_visible(L, Wt, h_s) ==
    LET z == PreVisible(L, Wt, h_s)
    IN  CASE L.vu = "BINARY" -> [i \in DOMAIN z |-> sigmoid(z[i])]
          [] L.vu = "GAUSSIAN" -> z
          [] L.vu = "RELU" -> [i \in DOMAIN z |-> Max2(z[i], 0)]

\* activate_visible: the draws of the sample v_s, given the activation v_a
visible_sample(L, v_a) ==
    CASE L.vu = "BINARY" -> bernoulli(v_a)
      [] L.vu = "GAUSSIAN" -> normal_noise(v_a)
      [] L.vu = "RELU" -> logistic_noise(v_a)

\* the sequences whose k-th element is drawn from S[k]
RECURSIVE Product(_)
Product(S) ==
    IF Len(S) = 0 THEN {<<>>}
    ELSE {Append(p, x) : p \in Product(SubSeq(S, 1, Len(S) - 1)), x \in S[Len(S)]}

\* ------------------------------------------------------------------------
\* The network (dbn)
\* ------------------------------------------------------------------------
layers == Len(stack)

\* layer<N>(), num_visible<N>(), num_hidden<N>() for the 0-based index N
layer(N) == stack[N + 1]
num_visible(N) == stack[N + 1].nv
num_hidden(N) == stack[N + 1].nh

\* adjacent layers fit: layer[i].numHidden = layer[i+1].numVisible
Chained(st) == \A k \in 1..(Len(st) - 1) : st[k].nh = st[k + 1].nv

\* the raw samples a caller may pass: binary vectors of the first layer's width
Samples(st) == Vectors(st[1].nv, {0, One})

Batches(st) == UNION {[1..n -> Samples(st)] : n \in 1..MaxBatch}

\* what a freshly constructed, never written vector may hold
GarbageVals == {0, One}

\* static_cast<const training_t&>(input)
Input == IF inputRef = "data" THEN data ELSE next_a

\* ------------------------------------------------------------------------
\* dbn::pretrain
\* ------------------------------------------------------------------------
\* the stacks pretrain is run on; no two layers of a stack have the same type
PretrainStacks ==
    {<<Layer(2, 2, "BINARY", "BINARY"), Layer(2, 1, "BINARY", "SOFTMAX")>>,
     <<Layer(2, 1, "BINARY", "RELU"), Layer(1, 2, "RELU", "BINARY"),
       Layer(2, 1, "BINARY", "RELU6")>>,
     <<Layer(2, 2, "BINARY", "RELU1"), Layer(2, 1, "BINARY", "EXP")>>,
     <<Layer(2, 1, "BINARY", "EXP"), Layer(1, 2, "BINARY", "BINARY")>>,
     <<Layer(2, 1, "GAUSSIAN", "BINARY")>>}

\* the layers the unit-type policy excludes from training
SkipsTraining(L) == L.hu = "EXP"

\* the vectors activate_hidden reads as v_a for the items of the batch. Once
\* input is bound to next_a, next_a.clear() empties the batch itself and
\* input[i] is the vector just constructed by next_a.emplace_back(num_hidden):
\* h_a and v_a are one object, never written, read over num_visible slots.
PretrainSources(L) ==
    IF inputRef = "data" THEN {data}
    ELSE [1..Len(next_a) -> Vectors(L.nv, GarbageVals)]

\* the mutant of watch_then_train that reports a layer after training it
train_then_watch(tr, N, size) ==
    tr \o <<[ev |-> "train", layer |-> N],
            [ev |-> "pretrain_layer", layer |-> N, size |-> size]>>

\* watcher.pretrain_layer(*this, I, input_size), then rbm.train(input, ...)
watch_then_train(tr, N, size) ==
    tr \o <<[ev |-> "pretrain_layer", layer |-> N, size |-> size],
            [ev |-> "train", layer |-> N]>>

\* pretrain(first, last, max_epochs) up to the layer loop
pretrain_begin(samples) ==
    /\ pc = "idle"
    /\ pc' = "pretrain"
    /\ I' = 0
    /\ data' = samples
    /\ inputRef' = "data"
    /\ next_a' = <<>>
    /\ next_s' = <<>>
    /\ trace' = <<[ev |-> "pretraining_begin"]>>
    /\ trainLog' = <<>>
    /\ W0' = W
    /\ fed' = <<>>
    /\ UNCHANGED <<stack, W, twlVars, fwdVars>>

\* the lambda body for layer I
pretrain_layer ==
    /\ pc = "pretrain"
    /\ I < layers
    /\ I' = I + 1
    /\ fed' = Append(fed, Input)
    /\ \/ /\ ~SkipsTraining(layer(I))
          /\ \E Wt \in train(layer(I)) :
                /\ W' = [W EXCEPT ![I + 1] = Wt]
                /\ trainLog' = Append(trainLog, [layer |-> I, batch |-> Input])
                /\ trace' = watch_then_train(trace, I, Len(Input))
                /\ \/ /\ I < layers - 1
                      /\ \E src \in PretrainSources(layer(I)) :
                            next_a' = [i \in 1..Len(Input) |->
                                          activate_hidden(layer(I), Wt, src[i])]
                      /\ next_s' \in Product([i \in 1..Len(Input) |->
                                          hidden_sample(layer(I), next_a'[i])])
                      /\ inputRef' = "next_a"
                   \/ /\ ~(I < layers - 1)
                      /\ UNCHANGED <<next_a, next_s, inputRef>>
       \/ /\ SkipsTraining(layer(I))
          /\ UNCHANGED <<W, trainLog, next_a, next_s, inputRef, trace>>
    /\ UNCHANGED <<stack, pc, data, W0, twlVars, fwdVars>>

\* after the layer loop: pretraining_end, the locals go out of scope
pretrain_end ==
    /\ pc = "pretrain"
    /\ I = layers
    /\ pc' = "done"
    /\ data' = <<>>
    /\ next_a' = <<>>
    /\ next_s' = <<>>
    /\ inputRef' = "data"
    /\ trace' = Append(trace, [ev |-> "pretraining_end"])
    /\ UNCHANGED <<stack, W, I, trainLog, W0, fed, twlVars, fwdVars>>

\* the function-static buffers before the first call, by function
NoStatics == [ap |-> <<>>, fap |-> <<>>, pl |-> <<>>, t_h |-> <<>>, t_v |-> <<>>]

\* no forward-pass call has returned yet
NoOut == [op |-> "none", arg |-> <<>>, result |-> <<>>, sample |-> <<>>,
          label |-> 0, writes |-> <<>>]

\* the weights of a stack freshly constructed, or after a training run
Weights(st) ==
    {[k \in 1..Len(st) |-> dyn_rbm(p, st[k])] : p \in 1..NumProfiles}
        \cup {[k \in 1..Len(st) |-> Trained(p, st[k])] : p \in 1..NumProfiles}

\* memo with one more call of op on arg that returned ret (n: 1, or 2 for more)
Remember(op, arg, ret) ==
    IF \E e \in memo : e.op = op /\ e.arg = arg /\ e.ret = ret
    THEN {IF e.op = op /\ e.arg = arg /\ e.ret = ret THEN [e EXCEPT !.n = 2] ELSE e :
             e \in memo}
    ELSE memo \cup {[op |-> op, arg |-> arg, ret |-> ret, n |-> 1]}

\* no operation has run yet: empty locals, empty static buffers
Idle ==
    /\ pc = "idle"
    /\ I = 0
    /\ data = <<>>
    /\ inputRef = "data"
    /\ next_a = <<>>
    /\ next_s = <<>>
    /\ trace = <<>>
    /\ trainLog = <<>>
    /\ W0 = W
    /\ fed = <<>>
    /\ labs = <<>>
    /\ numLabels = 0
    /\ calls = 0
    /\ twlNext = [k \in 1..Len(stack) |-> <<>>]
    /\ statics = NoStatics
    /\ out = NoOut
    /\ memo = {}

InitPretrain ==
    /\ stack \in PretrainStacks
    /\ \E p \in 1..NumProfiles : W = [k \in 1..Len(stack) |-> dyn_rbm(p, stack[k])]
    /\ Idle

NextPretrain ==
    \/ \E samples \in Batches(stack) : pretrain_begin(samples)
    \/ pretrain_layer
    \/ pretrain_end

SpecPretrain == InitPretrain /\ [][NextPretrain]_vars

\* ------------------------------------------------------------------------
\* Claims about pretrain
\* ------------------------------------------------------------------------
\* C1: in pretrain the layers are trained in ascending index order, and the
\* batch layer I+1 receives is, item by item and in the same order, the hidden
\* activation of layer I (with layer I's weights after its training) of the
\* batch layer I received.
C1_NextBatchIsActivation ==
    /\ \A k, m \in 1..Len(trainLog) : k < m => trainLog[k].layer < trainLog[m].layer
    /\ \A k \in 2..Len(fed) :
          ~SkipsTraining(stack[k - 1]) =>
              fed[k] = [i \in 1..Len(fed[k - 1]) |->
                           activate_hidden(stack[k - 1], W[k - 1], fed[k - 1][i])]

\* C2: a layer whose hidden unit type is SOFTMAX is never passed to train by
\* pretrain, and its weights and biases after pretrain are those before it.
C2_SoftmaxNeverTrained ==
    \A k \in 1..Len(stack) :
        stack[k].hu = "SOFTMAX" =>
            /\ \A e \in 1..Len(trainLog) : trainLog[e].layer # k - 1
            /\ pc = "done" => W[k] = W0[k]

C13_TrainedBatchShape ==
    \A e \in 1..Len(trainLog) :
        /\ Len(trainLog[e].batch) = Len(fed[1])
        /\ \A i \in 1..Len(trainLog[e].batch) :
              Len(trainLog[e].batch[i]) = num_visible(trainLog[e].layer)

\* ------------------------------------------------------------------------
\* dbn::train_with_labels
\* ------------------------------------------------------------------------
\* stacks with room for two label units at the last layer; no two layers of
\* a stack have the same type
LabelStacks ==
    {<<Layer(1, 1, "BINARY", "BINARY"), Layer(3, 2, "BINARY", "BINARY")>>,
     <<Layer(1, 2, "BINARY", "RELU1"), Layer(2, 1, "BINARY", "BINARY"),
       Layer(3, 1, "GAUSSIAN", "RELU")>>}

\* the label sequences a caller may pass for 'labels' label values
LabelSeqs(labels) == UNION {[1..n -> 0..(labels - 1)] : n \in 1..MaxBatch}

\* the chain of hidden activations of the layers 0..k-1 of st, weights Ws
RECURSIVE Forward(_, _, _, _)
Forward(st, Ws, k, v) ==
    IF k = 0 THEN v ELSE activate_hidden(st[k], Ws[k], Forward(st, Ws, k - 1, v))

\* the one-hot encoding of label over 'labels' slots
OneHot(label, labels) == [s \in 1..labels |-> IF label = s - 1 THEN One ELSE 0]

\* the mutant of twl_asserts that keeps only the width check
twl_asserts_width_only(nSamples, nLabels, labels) ==
    num_visible(layers - 1) = num_hidden(layers - 2) + labels

\* the two cpp_assert of train_with_labels
twl_asserts(nSamples, nLabels, labels) ==
    /\ nSamples = nLabels
    /\ num_visible(layers - 1) = num_hidden(layers - 2) + labels

\* static_cast<const training_t&>(input): data, then the previous layer's next
TwlInput == IF I = 0 THEN data ELSE twlNext[I]

\* what the lambda body for layer I leaves in its static next: one item more
\* per item of the input (widened by 'labels' slots, which activate_hidden
\* does not compute, when the next layer is the last), then the label slots
\* of next[0], next[1], ... set from the labels
twl_next(L, Wt, g) ==
    LET append_labels == (I + 1 = layers - 1)
        wide == IF append_labels THEN [s \in 1..numLabels |-> g] ELSE <<>>
        appended == twlNext[I + 1] \o
                    [i \in 1..Len(TwlInput) |-> activate_hidden(L, Wt, TwlInput[i]) \o wide]
    IN  IF append_labels
        THEN [i \in 1..Len(appended) |->
                 IF i <= Len(labs)
                 THEN [s \in 1..Len(appended[i]) |->
                          IF s > L.nh /\ s <= L.nh + numLabels
                          THEN OneHot(labs[i], numLabels)[s - L.nh]
                          ELSE appended[i][s]]
                 ELSE appended[i]]
        ELSE appended

\* train_with_labels(first, last, lfirst, llast, labels, max_epochs) up to the
\* layer loop: a failed cpp_assert aborts the process
twl_call(samples, ls, labels) ==
    /\ pc = "idle"
    /\ calls < MaxCalls
    /\ calls' = calls + 1
    /\ data' = samples
    /\ labs' = ls
    /\ numLabels' = labels
    /\ I' = 0
    /\ trainLog' = <<>>
    /\ W0' = W
    /\ fed' = <<>>
    /\ \/ /\ twl_asserts(Len(samples), Len(ls), labels)
          /\ pc' = "twl"
       \/ /\ ~twl_asserts(Len(samples), Len(ls), labels)
          /\ pc' = "aborted"
    /\ UNCHANGED <<stack, W, twlNext, pretrainVars, fwdVars>>

\* the lambda body for layer I
twl_layer ==
    /\ pc = "twl"
    /\ I < layers
    /\ I' = I + 1
    /\ fed' = Append(fed, TwlInput)
    /\ \E Wt \in train(layer(I)) :
          /\ W' = [W EXCEPT ![I + 1] = Wt]
          /\ trainLog' = Append(trainLog, [layer |-> I, batch |-> TwlInput])
          /\ \/ /\ I < layers - 1
                /\ \E g \in GarbageVals :
                      twlNext' = [twlNext EXCEPT ![I + 1] = twl_next(layer(I), Wt, g)]
             \/ /\ ~(I < layers - 1)
                /\ UNCHANGED twlNext
    /\ UNCHANGED <<stack, pc, data, W0, labs, numLabels, calls, pretrainVars, fwdVars>>

\* after the layer loop: the locals go out of scope, the statics stay
twl_end ==
    /\ pc = "twl"
    /\ I = layers
    /\ pc' = "idle"
    /\ data' = <<>>
    /\ labs' = <<>>
    /\ UNCHANGED <<stack, W, I, trainLog, W0, fed, numLabels, calls, twlNext,
                   pretrainVars, fwdVars>>

InitLabels ==
    /\ stack \in LabelStacks
    /\ \E p \in 1..NumProfiles : W = [k \in 1..Len(stack) |-> dyn_rbm(p, stack[k])]
    /\ Idle

NextLabels ==
    \/ \E samples \in Batches(stack), labels \in 1..MaxLabels :
          \E ls \in LabelSeqs(labels) : twl_call(samples, ls, labels)
    \/ twl_layer
    \/ twl_end

SpecLabels == InitLabels /\ [][NextLabels]_vars

\* ------------------------------------------------------------------------
\* Claims about train_with_labels
\* ------------------------------------------------------------------------
\* C3: item i of the batch the last layer is trained on holds, in its last
\* numLabels slots, the one-hot encoding of labels[i], and in its first slots
\* the previous layer's hidden activation of sample i.
C3_JointBatchItem ==
    (pc = "twl" /\ I = layers) =>
        LET batch == trainLog[Len(trainLog)].batch
            nh == num_hidden(layers - 2)
        IN  \A i \in 1..Len(data) :
                /\ i <= Len(batch)
                /\ Len(batch[i]) = nh + numLabels
                /\ SubSeq(batch[i], nh + 1, nh + numLabels) = OneHot(labs[i], numLabels)
                /\ SubSeq(batch[i], 1, nh) = Forward(stack, W, layers - 1, data[i])

\* C12: in train_with_labels, also after earlier calls in the same process,
\* the batch each layer is trained on has exactly one item per input sample,
\* item i is derived from sample i of the current call, and the label slots
\* written for sample i are in that item: the static buffer 'next' carries no
\* item of an earlier call or layer into a training batch.
C12_OneItemPerSample ==
    pc = "twl" =>
        \A e \in 1..Len(trainLog) :
            LET batch == trainLog[e].batch
                N == trainLog[e].layer
            IN  /\ Len(batch) = Len(data)
                /\ \A i \in 1..Len(data) :
                      /\ i <= Len(batch)
                      /\ N = 0 => batch[i] = data[i]
                      /\ N > 0 =>
                            SubSeq(batch[i], 1, num_hidden(N - 1))
                                = Forward(stack, W, N, data[i])
                      /\ (N > 0 /\ N = layers - 1) =>
                            SubSeq(batch[i], num_hidden(N - 1) + 1, Len(batch[i]))
                                = OneHot(labs[i], numLabels)

\* C4: a train_with_labels call whose sample and label counts differ, or
\* whose last layer has no room for numLabels label units, fails before any
\* train call and leaves every layer's weights and biases as they were.
C4_ContractFailsEarly ==
    (/\ pc \in {"twl", "aborted"}
     /\ \/ Len(data) # Len(labs)
        \/ num_visible(layers - 1) # num_hidden(layers - 2) + numLabels) =>
        /\ pc = "aborted"
        /\ trainLog = <<>>
        /\ W = W0

\* a call refused after an earlier call trained the layers
C4_Witness ==
    /\ pc = "aborted"
    /\ calls = 2
    /\ Len(data) # Len(labs)
    /\ W = W0
    /\ \E k \in 1..Len(stack) : W[k].b # [j \in 1..stack[k].nh |-> 0]

\* ------------------------------------------------------------------------
\* dbn::predict_labels
\* ------------------------------------------------------------------------
\* the running-maximum loop: label and max after the slots l, l+1, ... of vals
RECURSIVE RunningMax(_, _, _, _)
RunningMax(vals, l, label, max) ==
    IF l >= Len(vals) THEN label
    ELSE IF vals[l + 1] > max THEN RunningMax(vals, l + 1, l, vals[l + 1])
    ELSE RunningMax(vals, l + 1, label, max)

\* the mutant of predict_labels_decode that reads the first 'labels' units
predict_labels_decode_first(output_a, labels) ==
    RunningMax([l \in 1..labels |-> output_a[l]], 0, 0, 0)

\* the decoding loop of predict_labels over the last 'labels' visible units
predict_labels_decode(output_a, labels) ==
    RunningMax([l \in 1..labels |-> output_a[Len(output_a) - labels + l]], 0, 0, 0)

\* the input of layer k+1 (1-based k) given layer k's static buffers: next_a,
\* or big_next_a when the next layer is the last
pl_input(k, buf) == IF k + 1 = layers THEN buf.big ELSE buf.a

\* the static buffers predict_labels may leave, for the layers 1..k: next_a,
\* next_s and big_next_a (h1_a, h1_s at the last layer)
RECURSIVE PlRuns(_, _, _)
PlRuns(k, item, labels) ==
    IF k = 0 THEN {<<>>}
    ELSE UNION {
        LET in == IF k = 1 THEN item ELSE pl_input(k - 1, r[k - 1])
            a == activate_hidden(stack[k], W[k], in)
            big == IF k + 1 = layers THEN a \o [l \in 1..labels |-> Neutral] ELSE <<>>
        IN  {Append(r, [a |-> a, s |-> x, big |-> big]) : x \in hidden_sample(stack[k], a)}
        : r \in PlRuns(k - 1, item, labels)}

\* predict_labels(item_data, labels); the local output_s is drawn and dropped
predict_labels(item, labels) ==
    /\ pc = "idle"
    /\ numLabels' = labels
    /\ \/ /\ num_visible(layers - 1) = num_hidden(layers - 2) + labels
          /\ \E r \in PlRuns(layers, item, labels) :
                LET output_a == activate_visible(layer(layers - 1), W[layers], r[layers].s)
                IN  /\ statics' = [statics EXCEPT !.pl = r]
                    /\ out' = [op |-> "predict_labels", arg |-> item,
                               result |-> output_a, sample |-> <<>>,
                               label |-> predict_labels_decode(output_a, labels),
                               writes |-> <<>>]
                    /\ memo' = Remember("predict_labels", item,
                                         <<predict_labels_decode(output_a, labels)>>)
          /\ pc' = "idle"
       \/ /\ num_visible(layers - 1) # num_hidden(layers - 2) + labels
          /\ pc' = "aborted"
          /\ UNCHANGED <<statics, out, memo>>
    /\ UNCHANGED <<stack, W, I, data, trainLog, W0, fed, labs, calls, twlNext,
                   pretrainVars>>

InitPredictLabels ==
    /\ stack \in LabelStacks
    /\ W \in Weights(stack)
    /\ Idle

NextPredictLabels ==
    \E item \in Samples(stack), labels \in 1..MaxLabels : predict_labels(item, labels)

SpecPredictLabels == InitPredictLabels /\ [][NextPredictLabels]_vars

\* ------------------------------------------------------------------------
\* Claims about predict_labels
\* ------------------------------------------------------------------------
\* the last numLabels units of the reconstructed visible activation
LabelUnits == SubSeq(out.result, Len(out.result) - numLabels + 1, Len(out.result))

C9_SameLabelEveryCall ==
    \A p, q \in memo :
        (p.op = "predict_labels" /\ q.op = "predict_labels" /\ p.arg = q.arg)
            => p.ret = q.ret

\* ------------------------------------------------------------------------
\* dbn::activation_probabilities, full_activation_probabilities, predict
\* ------------------------------------------------------------------------
\* chained stacks with a one-unit input; no two layers of a stack have the
\* same type
ForwardStacks ==
    {<<Layer(1, 1, "BINARY", "RELU"), Layer(1, 1, "RELU", "RELU6")>>,
     <<Layer(1, 1, "BINARY", "RELU1"), Layer(1, 1, "RELU", "BINARY"),
       Layer(1, 2, "BINARY", "SOFTMAX")>>,
     <<Layer(1, 2, "GAUSSIAN", "BINARY")>>}

\* the mutant of ap_input that passes the sample buffer on
ap_input_sample(buf) == buf.s

\* activation_probabilities: input = std::cref(next)
ap_input(buf) == buf.a

\* the static buffers next, next_s that activation_probabilities may leave
\* for the layers 1..k, each layer reading what the layer before it wrote
RECURSIVE ApRuns(_, _)
ApRuns(k, item) ==
    IF k = 0 THEN {<<>>}
    ELSE UNION {
        LET in == IF k = 1 THEN item ELSE ap_input(r[k - 1])
            a == activate_hidden(stack[k], W[k], in)
        IN  {Append(r, [a |-> a, s |-> x]) : x \in hidden_sample(stack[k], a)}
        : r \in ApRuns(k - 1, item)}

\* the outcomes of activation_probabilities(item_data, result): the statics
\* (the last layer has only the static next_s) and the result
ApOutcomes(item) ==
    UNION {
        LET in == IF layers = 1 THEN item ELSE ap_input(r[layers - 1])
            result == activate_hidden(stack[layers], W[layers], in)
        IN  {[st |-> Append(r, [a |-> <<>>, s |-> x]), result |-> result] :
                x \in hidden_sample(stack[layers], result)}
        : r \in ApRuns(layers - 1, item)}

\* activation_probabilities(item_data)
activation_probabilities(item) ==
    /\ pc = "idle"
    /\ \E o \in ApOutcomes(item) :
          /\ statics' = [statics EXCEPT !.ap = o.st]
          /\ out' = [op |-> "activation_probabilities", arg |-> item,
                     result |-> o.result, sample |-> <<>>, label |-> 0,
                     writes |-> <<>>]
          /\ memo' = Remember("activation_probabilities", item, o.result)
    /\ UNCHANGED <<stack, W, pc, I, data, trainLog, W0, fed, pretrainVars, twlVars>>

\* full_output_size()
full_output_size == SumTo([k \in 1..layers |-> output_size(stack[k])], layers)

\* full_activation_probabilities: input = std::cref(next_a)
fap_input(buf) == buf.a

\* the static buffers next_a, next_s full_activation_probabilities may leave
RECURSIVE FapRuns(_, _)
FapRuns(k, item) ==
    IF k = 0 THEN {<<>>}
    ELSE UNION {
        LET in == IF k = 1 THEN item ELSE fap_input(r[k - 1])
            a == activate_hidden(stack[k], W[k], in)
        IN  {Append(r, [a |-> a, s |-> x]) : x \in hidden_sample(stack[k], a)}
        : r \in FapRuns(k - 1, item)}

\* the mutant of fap_store that does not advance i
fap_store_no_advance(acc, a) ==
    [result |-> [s \in DOMAIN acc.result |->
                    IF s > acc.i /\ s <= acc.i + Len(a) THEN a[s - acc.i]
                    ELSE acc.result[s]],
     writes |-> [s \in DOMAIN acc.writes |->
                    IF s > acc.i /\ s <= acc.i + Len(a) THEN acc.writes[s] + 1
                    ELSE acc.writes[s]],
     i |-> acc.i]

\* for(auto& value : next_a){ result[i++] = value; }
fap_store(acc, a) ==
    [result |-> [s \in DOMAIN acc.result |->
                    IF s > acc.i /\ s <= acc.i + Len(a) THEN a[s - acc.i]
                    ELSE acc.result[s]],
     writes |-> [s \in DOMAIN acc.writes |->
                    IF s > acc.i /\ s <= acc.i + Len(a) THEN acc.writes[s] + 1
                    ELSE acc.writes[s]],
     i |-> acc.i + Len(a)]

\* result, the writes to each of its slots and i after the layers 1..k
RECURSIVE FapFill(_, _)
FapFill(r, k) ==
    IF k = 0
    THEN [result |-> [s \in 1..full_output_size |-> 0],
          writes |-> [s \in 1..full_output_size |-> 0], i |-> 0]
    ELSE fap_store(FapFill(r, k - 1), r[k].a)

\* full_activation_probabilities(item_data)
full_activation_probabilities(item) ==
    /\ pc = "idle"
    /\ \E r \in FapRuns(layers, item) :
          /\ statics' = [statics EXCEPT !.fap = r]
          /\ out' = [op |-> "full_activation_probabilities", arg |-> item,
                     result |-> FapFill(r, layers).result, sample |-> <<>>,
                     label |-> 0, writes |-> FapFill(r, layers).writes]
    /\ UNCHANGED <<stack, W, pc, I, data, trainLog, W0, fed, memo, pretrainVars, twlVars>>

InitForward ==
    /\ stack \in ForwardStacks
    /\ W \in Weights(stack)
    /\ Idle

NextForward ==
    \/ \E item \in Samples(stack) : activation_probabilities(item)
    \/ \E item \in Samples(stack) : full_activation_probabilities(item)

SpecForward == InitForward /\ [][NextForward]_vars

\* the mutant of predict_label that compares with >=
predict_label_ge(result) ==
    LET RECURSIVE Loop(_, _, _)
        Loop(l, label, max) ==
            IF l >= Len(result) THEN label
            ELSE IF result[l + 1] >= max THEN Loop(l + 1, l, result[l + 1])
            ELSE Loop(l + 1, label, max)
    IN  Loop(0, 0, 0)

\* predict_label(result)
predict_label(result) == RunningMax(result, 0, 0, 0)

\* predict(item)
predict(item) ==
    /\ pc = "idle"
    /\ \E o \in ApOutcomes(item) :
          /\ statics' = [statics EXCEPT !.ap = o.st]
          /\ out' = [op |-> "predict", arg |-> item, result |-> o.result,
                     sample |-> <<>>, label |-> predict_label(o.result),
                     writes |-> <<>>]
    /\ UNCHANGED <<stack, W, pc, I, data, trainLog, W0, fed, memo, pretrainVars, twlVars>>

\* the activation vectors predict_label is probed with
ProbeVectors == UNION {Vectors(n, {-5, 0, 2, 5}) : n \in 1..MaxLen}

\* predict_label(result) called on its own, on the caller's vector data[1]
predict_label_call ==
    /\ pc = "idle"
    /\ out' = [op |-> "predict_label", arg |-> data[1], result |-> data[1],
               sample |-> <<>>, label |-> predict_label(data[1]), writes |-> <<>>]
    /\ UNCHANGED <<stack, W, pc, I, data, trainLog, W0, fed, statics, memo,
                   pretrainVars, twlVars>>

InitPredict ==
    /\ stack \in ForwardStacks
    /\ W \in Weights(stack)
    /\ pc = "idle"
    /\ I = 0
    /\ \E v \in ProbeVectors : data = <<v>>
    /\ inputRef = "data"
    /\ next_a = <<>>
    /\ next_s = <<>>
    /\ trace = <<>>
    /\ trainLog = <<>>
    /\ W0 = W
    /\ fed = <<>>
    /\ labs = <<>>
    /\ numLabels = 0
    /\ calls = 0
    /\ twlNext = [k \in 1..Len(stack) |-> <<>>]
    /\ statics = NoStatics
    /\ out = NoOut
    /\ memo = {}

NextPredict ==
    \/ \E item \in Samples(stack) : predict(item)
    \/ predict_label_call

SpecPredict == InitPredict /\ [][NextPredict]_vars

\* ------------------------------------------------------------------------
\* dyn_rbm::activate_hidden called on its own
\* ------------------------------------------------------------------------
UnitLayers == {Layer(2, 2, "BINARY", hu) : hu \in HiddenUnits}

\* visible vectors that drive the pre-activation far below 0 and above 6.0
ProbeInputs == Vectors(2, {-70, 0, 70})

\* activate_hidden(h_a, h_s, v_a, v_s)
activate_hidden_call(v) ==
    /\ pc = "idle"
    /\ \E h_s \in hidden_sample(layer(0), activate_hidden(layer(0), W[1], v)) :
          out' = [op |-> "activate_hidden", arg |-> v,
                  result |-> activate_hidden(layer(0), W[1], v), sample |-> h_s,
                  label |-> 0, writes |-> <<>>]
    /\ UNCHANGED <<stack, W, pc, I, data, trainLog, W0, fed, statics, memo,
                   pretrainVars, twlVars>>

InitUnit ==
    /\ \E L \in UnitLayers : stack = <<L>>
    /\ W \in Weights(stack)
    /\ Idle

NextUnit == \E v \in ProbeInputs : activate_hidden_call(v)

SpecUnit == InitUnit /\ [][NextUnit]_vars

\* ------------------------------------------------------------------------
\* several dyn_rbm instances of one type
\* ------------------------------------------------------------------------
\* the (num_visible, num_hidden) a dyn_rbm may be constructed with
DynDims == {<<1, 2>>, <<2, 1>>, <<2, 2>>}

\* two instances of the same dyn_rbm<Desc>: the unit types are the type's
DynStacks ==
    {<<Layer(d[1], d[2], u[1], u[2]), Layer(e[1], e[2], u[1], u[2])>> :
        d \in DynDims, e \in DynDims,
        u \in {<<"BINARY", "BINARY">>, <<"GAUSSIAN", "RELU">>}}

\* 'static etl::dyn_matrix<weight> t(rows, cols)': constructed by the first
\* call that reaches the declaration, with that instance's dimension, and
\* the same object in every later call of the function, on any instance
static_t(t, shape) == IF t = <<>> THEN shape ELSE t

\* what auto_vmmul leaves in an output of n slots: the product when t has the
\* shape of the product, anything when the scratch matrix has another shape
through_t(t, shape, n, exact) ==
    IF t = shape THEN {exact} ELSE {exact} \cup Vectors(n, GarbageVals)

\* rbm.activate_hidden(h_a, h_s, v_a, v_s) on instance k (0-based)
dyn_activate_hidden(k, v) ==
    LET L == layer(k)
        t == static_t(statics.t_h, <<1, L.nh>>)
    IN  /\ pc = "idle"
        /\ statics' = [statics EXCEPT !.t_h = t]
        /\ \E h_a \in through_t(t, <<1, L.nh>>, L.nh, activate_hidden(L, W[k + 1], v)) :
              \E h_s \in hidden_sample(L, h_a) :
                  out' = [op |-> "activate_hidden", arg |-> v, result |-> h_a,
                          sample |-> h_s, label |-> 0, writes |-> <<>>,
                          rbm |-> k, t |-> t]
        /\ UNCHANGED <<stack, W, pc, I, data, trainLog, W0, fed, memo,
                       pretrainVars, twlVars>>

\* rbm.activate_visible(h_a, h_s, v_a, v_s) on instance k (0-based)
dyn_activate_visible(k, h) ==
    LET L == layer(k)
        t == static_t(statics.t_v, <<L.nv, 1>>)
    IN  /\ pc = "idle"
        /\ statics' = [statics EXCEPT !.t_v = t]
        /\ \E v_a \in through_t(t, <<L.nv, 1>>, L.nv, activate_visible(L, W[k + 1], h)) :
              \E v_s \in visible_sample(L, v_a) :
                  out' = [op |-> "activate_visible", arg |-> h, result |-> v_a,
                          sample |-> v_s, label |-> 0, writes |-> <<>>,
                          rbm |-> k, t |-> t]
        /\ UNCHANGED <<stack, W, pc, I, data, trainLog, W0, fed, memo,
                       pretrainVars, twlVars>>

InitDyn ==
    /\ stack \in DynStacks
    /\ W \in Weights(stack)
    /\ Idle

NextDyn ==
    \/ \E k \in 0..(layers - 1) :
          \E v \in Vectors(num_visible(k), {0, One}) : dyn_activate_hidden(k, v)
    \/ \E k \in 0..(layers - 1) :
          \E h \in Vectors(num_hidden(k), {0, One}) : dyn_activate_visible(k, h)

SpecDyn == InitDyn /\ [][NextDyn]_vars

\* C14: in every activate_hidden resp. activate_visible call, on whichever
\* instance and after whichever earlier calls, the scratch matrix t has the
\* shape (1 x num_hidden) resp. (num_visible x 1) of the instance called,
\* and what the call writes is the activation of its input under that
\* instance's weights and biases.
C14_ScratchShape ==
    /\ out.op = "activate_hidden" =>
          /\ out.t = <<1, num_hidden(out.rbm)>>
          /\ out.result = activate_hidden(layer(out.rbm), W[out.rbm + 1], out.arg)
    /\ out.op = "activate_visible" =>
          /\ out.t = <<num_visible(out.rbm), 1>>
          /\ out.result = activate_visible(layer(out.rbm), W[out.rbm + 1], out.arg)

\* ------------------------------------------------------------------------
\* Claims about the forward pass
\* ------------------------------------------------------------------------
\* C6: predict_label returns the earliest index of the maximum element when
\* that maximum is strictly positive ([0.2, 0.5, 0.5] gives 1) and 0 when
\* every element is <= 0; predict returns an index below the last layer's
\* hidden width.
C6_EarliestPositiveMax ==
    out.op \in {"predict_label", "predict"} =>
        /\ VecMax(out.result) > 0 =>
              /\ out.result[out.label + 1] = VecMax(out.result)
              /\ \A l \in 1..out.label : out.result[l] < VecMax(out.result)
        /\ VecMax(out.result) <= 0 => out.label = 0
        /\ out.arg = <<2, 5, 5>> => out.label = 1
        /\ out.arg = <<0, 0, 0>> => out.label = 0
        /\ out.op = "predict" => out.label \in 0..(num_hidden(layers - 1) - 1)

\* predict_label has returned 1 for [0.2, 0.5, 0.5]
C6_Witness ==
    /\ out.op = "predict_label"
    /\ out.arg = <<2, 5, 5>>
    /\ out.label = 1

\* every layer's hidden activation of v, layer 0 first
RECURSIVE FullChain(_, _)
FullChain(k, v) ==
    IF k = 0 THEN <<>> ELSE FullChain(k - 1, v) \o Forward(stack, W, k, v)

\* C7: activation_probabilities(sample) has the last layer's hidden width;
\* full_activation_probabilities(sample) has the sum of all hidden widths,
\* every slot written exactly once, layer 0's activation first and the last
\* layer's last.
C7_OutputLengths ==
    /\ out.op = "activation_probabilities" =>
          Len(out.result) = output_size(layer(layers - 1))
    /\ out.op = "full_activation_probabilities" =>
          /\ Len(out.result) = SumTo([k \in 1..layers |-> stack[k].nh], layers)
          /\ \A s \in 1..Len(out.result) : out.writes[s] = 1
          /\ out.result = FullChain(layers, out.arg)

\* a three-layer stack's fused vector, with a non-zero last-layer part
C7_Witness ==
    /\ out.op = "full_activation_probabilities"
    /\ layers = 3
    /\ Len(out.result) = 4
    /\ out.writes = <<1, 1, 1, 1>>
    /\ out.result[3] # out.result[4]

\* C8: every activation_probabilities call with the same sample, under the
\* same weights, returns the same vector, whatever was drawn for the samples
\* and whatever forward-pass calls came in between: it is the chain of hidden
\* activations of the sample under the current weights.
C8_SameActivationEveryCall ==
    \A p, q \in memo :
        (p.op = "activation_probabilities" /\ q.op = "activation_probabilities"
            /\ p.arg = q.arg)
            => /\ p.ret = q.ret
               /\ p.ret = Forward(stack, W, layers, p.arg)

\* a sample passed twice, another sample and a full_activation_probabilities
\* call as well, in a stack whose first layer draws its sample
C8_Witness ==
    /\ layers >= 2
    /\ \E p, q \in memo :
          /\ p.op = "activation_probabilities"
          /\ q.op = "activation_probabilities"
          /\ p.n = 2
          /\ q.arg # p.arg
    /\ statics.fap # <<>>
    /\ statics.ap[1].s # statics.ap[1].a

\* C10: the hidden activation of a RELU1 layer lies in [0, 1] and that of a
\* RELU6 layer in [0, 6], for every pre-activation and every draw.
C10_RectifiedRange ==
    out.op = "activate_hidden" =>
        /\ layer(0).hu = "RELU1" =>
              \A j \in DOMAIN out.result : out.result[j] >= 0 /\ out.result[j] <= One
        /\ layer(0).hu = "RELU6" =>
              \A j \in DOMAIN out.result : out.result[j] >= 0 /\ out.result[j] <= Six

\* a RELU6 layer clamped at both ends: one unit above 6.0, one below 0
C10_Witness ==
    /\ out.op = "activate_hidden"
    /\ layer(0).hu = "RELU6"
    /\ \E j \in DOMAIN out.result :
          PreHidden(layer(0), W[1], out.arg)[j] > Six /\ out.result[j] = Six
    /\ \E j \in DOMAIN out.result :
          PreHidden(layer(0), W[1], out.arg)[j] < 0 /\ out.result[j] = 0

====
